---- MODULE Spec2Model ----
(***************************************************************************)
(* A model of the nushell-wasm entry point run_nu (src/src/lib.rs) and of  *)
(* its `open` command (src/src/open.rs): open, fetch and get_encoding,     *)
(* with the host callback readfile and the text decoders fetch calls.      *)
(*                                                                         *)
(* Strings are sequences of one-character strings, so that building the    *)
(* name "from <ext>" and taking a path's extension are computed.  Decoded  *)
(* text is a sequence of code points, bytes are numbers in 0..255.         *)
(* Option<T> is a sequence of length at most one: None is <<>>, Some(x) is *)
(* <<x>>.  Result<T, E> is a record with the field ok.                     *)
(***************************************************************************)
EXTENDS Integers, Sequences, FiniteSets, TLC

VARIABLES
    files,      \* the host's files: what readfile returns for each path
    pc,         \* each run_nu invocation's position
    line,       \* each invocation's line (Option)
    ctxs,       \* the execution contexts built so far, by slot (Option each)
    stage,      \* the pipeline stage parse_and_eval is running (Option)
    reads,      \* the paths each invocation passed to readfile, in order
    entered,    \* whether Open::run was entered by the invocation
    outcome,    \* the result of parse_and_eval (Option)
    resp        \* the strings run_nu returned to the host, in order

vars == <<files, pc, line, ctxs, stage, reads, entered, outcome, resp>>

(* ------------------------------ bounds --------------------------------- *)

\* The number of run_nu invocations whose executions may interleave.
NumInv == 2

\* The most bytes a file holds after its optional byte-order mark.
MaxBody == 2

(* ------------------------------ options -------------------------------- *)

None == <<>>

Some(x) == <<x>>

IsSome(o) == o # <<>>

Unwrap(o) == o[1]

Ok(v) == [ok |-> TRUE, val |-> v]

Err(e) == [ok |-> FALSE, err |-> e]

\* Tagged<T>: an item and the span of the token it came from.
Tagged(item, span) == [item |-> item, span |-> span]

(* ------------------------------ strings -------------------------------- *)

Upper == <<"A","B","C","D","E","F","G","H","I","J","K","L","M",
           "N","O","P","Q","R","S","T","U","V","W","X","Y","Z">>

LowerLetters == <<"a","b","c","d","e","f","g","h","i","j","k","l","m",
                  "n","o","p","q","r","s","t","u","v","w","x","y","z">>

\* u8::to_ascii_lowercase on one character.
ToAsciiLowercase(c) ==
    IF \E k \in 1..Len(Upper) : Upper[k] = c
    THEN LowerLetters[CHOOSE k \in 1..Len(Upper) : Upper[k] = c]
    ELSE c

\* The ASCII whitespace Encoding::for_label trims: tab, LF, FF, CR, space.
IsLabelSpace(c) == c \in {" ", "\t", "\n", "\f", "\r"}

RECURSIVE TrimStart(_)
TrimStart(s) ==
    IF s # <<>> /\ IsLabelSpace(Head(s)) THEN TrimStart(Tail(s)) ELSE s

RECURSIVE TrimEnd(_)
TrimEnd(s) ==
    IF s # <<>> /\ IsLabelSpace(s[Len(s)])
    THEN TrimEnd(SubSeq(s, 1, Len(s) - 1))
    ELSE s

\* The positions of character c in s.
Positions(s, c) == {k \in 1..Len(s) : s[k] = c}

Max(S) == CHOOSE m \in S : \A n \in S : n <= m

S_from == <<"f","r","o","m"," ">>

S_open == <<"o","p","e","n">>

S_csv == <<"c","s","v">>

S_json == <<"j","s","o","n">>

(* ------------------------------- paths --------------------------------- *)

\* std::path::Path::file_name: the last component when it is a normal one.
\* Trailing separators and "." components are skipped; ".." has no name.
RECURSIVE FileName(_)
FileName(p) ==
    IF p = <<>> THEN None
    ELSE IF p[Len(p)] = "/" THEN FileName(SubSeq(p, 1, Len(p) - 1))
    ELSE LET sl  == Positions(p, "/")
             seg == IF sl = {} THEN p ELSE SubSeq(p, Max(sl) + 1, Len(p))
         IN  IF seg = <<".">>
             THEN IF sl = {} THEN None ELSE FileName(SubSeq(p, 1, Max(sl)))
             ELSE IF seg = <<".", ".">> THEN None
             ELSE Some(seg)

\* std::path::Path::extension: what follows the last dot of the file name,
\* when the name has a dot that is not its first character.
Extension(p) ==
    LET fn == FileName(p) IN
    IF fn = None THEN None
    ELSE LET f    == Unwrap(fn)
             dots == Positions(f, ".")
         IN  IF dots = {} THEN None
             ELSE IF Max(dots) = 1 THEN None
             ELSE Some(SubSeq(f, Max(dots) + 1, Len(f)))

\* The format tag as it would be if raw were not looked at.
FormatTagIgnoringRaw(path, raw) == Extension(path)

\* path.extension().map(|name| name.to_string_lossy().to_string()), unless raw.
FormatTag(path, raw) == IF raw THEN None ELSE Extension(path)

(* ------------------------------ errors --------------------------------- *)

\* ShellError::labeled_error(msg, label, span).  A message is its fixed text
\* and the value formatted into it.
LabeledError(text, arg, label, span) ==
    [kind |-> "labeled", text |-> text, arg |-> arg,
     label |-> label, span |-> Some(span)]

\* The ShellError the `?` operator makes of a serde_json::Error through
\* From: the conversion sees the JSON error alone, no span and no label.
FromSerdeError(e) ==
    [kind |-> "from_serde_json", text |-> "serde_json", arg |-> e,
     label |-> "", span |-> None]

(* ----------------------------- encodings ------------------------------- *)

\* Labels of the Encoding Standard that Encoding::for_label knows (a part of
\* its table), each with its encoding.
LabelTable ==
    { << <<"u","t","f","-","8">>, "UTF-8" >>,
      << <<"u","t","f","8">>, "UTF-8" >>,
      << <<"u","t","f","-","1","6","l","e">>, "UTF-16LE" >>,
      << <<"u","t","f","-","1","6">>, "UTF-16LE" >>,
      << <<"u","t","f","-","1","6","b","e">>, "UTF-16BE" >>,
      << <<"l","a","t","i","n","1">>, "windows-1252" >>,
      << <<"a","s","c","i","i">>, "windows-1252" >>,
      << <<"w","i","n","d","o","w","s","-","1","2","5","2">>, "windows-1252" >> }

\* Encoding::for_label: trim ASCII whitespace, lowercase, look the label up.
ForLabel(label) ==
    LET t == TrimEnd(TrimStart(label))
        l == [k \in 1..Len(t) |-> ToAsciiLowercase(t[k])]
    IN  IF \E e \in LabelTable : e[1] = l
        THEN Some((CHOOSE e \in LabelTable : e[1] = l)[2])
        ELSE None

\* get_encoding as it would be with an invalid label reported at the path's
\* span instead of the label's own.
GetEncodingSpanPath(opt) ==
    IF opt = None THEN Ok("UTF-8")
    ELSE LET label == Unwrap(opt)
             found == ForLabel(label.item)
         IN  IF found = None
             THEN Err(LabeledError("is not a valid encoding", label.item,
                                   "invalid encoding", "path"))
             ELSE Ok(Unwrap(found))

\* get_encoding: the decoder a label names, UTF-8 without a label.
GetEncoding(opt) ==
    IF opt = None THEN Ok("UTF-8")
    ELSE LET label == Unwrap(opt)
             found == ForLabel(label.item)
         IN  IF found = None
             THEN Err(LabeledError("is not a valid encoding", label.item,
                                   "invalid encoding", label.span))
             ELSE Ok(Unwrap(found))

(* ------------------------------ decoders ------------------------------- *)

\* What a decoder has produced: the code points, and whether it had to put
\* U+FFFD in place of a malformed sequence.
Emit(acc, cp) == [text |-> Append(acc.text, cp), err |-> acc.err]

Malformed(acc) == [text |-> Append(acc.text, 65533), err |-> TRUE]

NoText == [text |-> <<>>, err |-> FALSE]

\* The UTF-8 decoder of the Encoding Standard: need is the number of
\* continuation bytes still expected, cp the code point so far, lo..hi the
\* range the next continuation byte must be in.  A byte that cannot continue
\* a sequence ends it with U+FFFD and is decoded again as a first byte.
RECURSIVE Utf8Run(_, _, _, _, _, _)
Utf8Run(bs, need, cp, lo, hi, acc) ==
    IF bs = <<>>
    THEN IF need # 0 THEN Malformed(acc) ELSE acc
    ELSE LET b == Head(bs)
             r == Tail(bs)
         IN  IF need = 0
             THEN CASE b <= 127 -> Utf8Run(r, 0, 0, 128, 191, Emit(acc, b))
                    [] b \in 194..223 -> Utf8Run(r, 1, b % 32, 128, 191, acc)
                    [] b \in 224..239 ->
                         Utf8Run(r, 2, b % 16,
                                 IF b = 224 THEN 160 ELSE 128,
                                 IF b = 237 THEN 159 ELSE 191, acc)
                    [] b \in 240..244 ->
                         Utf8Run(r, 3, b % 8,
                                 IF b = 240 THEN 144 ELSE 128,
                                 IF b = 244 THEN 143 ELSE 191, acc)
                    [] OTHER -> Utf8Run(r, 0, 0, 128, 191, Malformed(acc))
             ELSE IF b \notin lo..hi
                  THEN Utf8Run(bs, 0, 0, 128, 191, Malformed(acc))
                  ELSE IF need = 1
                       THEN Utf8Run(r, 0, 0, 128, 191,
                                    Emit(acc, (cp * 64) + (b % 64)))
                       ELSE Utf8Run(r, need - 1, (cp * 64) + (b % 64),
                                    128, 191, acc)

\* The UTF-16 decoder of the Encoding Standard, big endian when be.  lead is
\* the pending lead surrogate (Option).
RECURSIVE Utf16Run(_, _, _, _)
Utf16Run(bs, be, lead, acc) ==
    IF bs = <<>>
    THEN IF IsSome(lead) THEN Malformed(acc) ELSE acc
    ELSE IF Len(bs) = 1 THEN Malformed(acc)
    ELSE LET unit == IF be THEN bs[1] * 256 + bs[2] ELSE bs[2] * 256 + bs[1]
             r    == SubSeq(bs, 3, Len(bs))
         IN  IF IsSome(lead)
             THEN IF unit \in 56320..57343
                  THEN Utf16Run(r, be, None,
                                Emit(acc, 65536 + (Unwrap(lead) - 55296) * 1024
                                               + (unit - 56320)))
                  ELSE Utf16Run(bs, be, None, Malformed(acc))
             ELSE IF unit \in 55296..56319 THEN Utf16Run(r, be, Some(unit), acc)
             ELSE IF unit \in 56320..57343
                  THEN Utf16Run(r, be, None, Malformed(acc))
             ELSE Utf16Run(r, be, None, Emit(acc, unit))

\* windows-1252: the code points of bytes 0x80..0x9F; every other byte is
\* its own code point.  No byte is malformed.
Windows1252High ==
    << 8364, 129, 8218, 402, 8222, 8230, 8224, 8225,
       710, 8240, 352, 8249, 338, 141, 381, 143,
       144, 8216, 8217, 8220, 8221, 8226, 8211, 8212,
       732, 8482, 353, 8250, 339, 157, 382, 376 >>

Windows1252Run(bs) ==
    [text |-> [k \in 1..Len(bs) |->
                 IF bs[k] \in 128..159 THEN Windows1252High[bs[k] - 127]
                 ELSE bs[k]],
     err |-> FALSE]

\* Encoding::decode_without_bom_handling.
DecodeWithoutBomHandling(encoding, bs) ==
    CASE encoding = "UTF-8" -> Utf8Run(bs, 0, 0, 128, 191, NoText)
      [] encoding = "UTF-16LE" -> Utf16Run(bs, FALSE, None, NoText)
      [] encoding = "UTF-16BE" -> Utf16Run(bs, TRUE, None, NoText)
      [] OTHER -> Windows1252Run(bs)

Bom(encoding) ==
    CASE encoding = "UTF-8" -> <<239, 187, 191>>
      [] encoding = "UTF-16LE" -> <<255, 254>>
      [] encoding = "UTF-16BE" -> <<254, 255>>
      [] OTHER -> <<>>

StartsWith(bs, prefix) ==
    Len(bs) >= Len(prefix) /\ SubSeq(bs, 1, Len(prefix)) = prefix

\* Encoding::for_bom: the encoding whose byte-order mark the bytes start with.
ForBom(bs) ==
    IF StartsWith(bs, Bom("UTF-8")) THEN Some("UTF-8")
    ELSE IF StartsWith(bs, Bom("UTF-16LE")) THEN Some("UTF-16LE")
    ELSE IF StartsWith(bs, Bom("UTF-16BE")) THEN Some("UTF-16BE")
    ELSE None

\* Encoding::decode: byte-order-mark sniffing.  A leading mark chooses the
\* decoder and is dropped; without one the encoding itself decodes.
Decode(encoding, bs) ==
    LET sniffed == ForBom(bs) IN
    IF IsSome(sniffed)
    THEN DecodeWithoutBomHandling(
             Unwrap(sniffed),
             SubSeq(bs, Len(Bom(Unwrap(sniffed))) + 1, Len(bs)))
    ELSE DecodeWithoutBomHandling(encoding, bs)

\* Encoding::decode_with_bom_removal: the encoding's own mark, when the bytes
\* start with it, is dropped; the decoder is never switched.
DecodeWithBomRemoval(encoding, bs) ==
    IF Bom(encoding) # <<>> /\ StartsWith(bs, Bom(encoding))
    THEN DecodeWithoutBomHandling(encoding,
                                  SubSeq(bs, Len(Bom(encoding)) + 1, Len(bs)))
    ELSE DecodeWithoutBomHandling(encoding, bs)

(* ------------------------------- values -------------------------------- *)

\* Tag { span, anchor: Some(AnchorLocation::File(path)) }.
FileTag(path, span) == [span |-> span, anchor |-> Some(path)]

\* UntaggedValue::string(text).into_value(tag).
StringValue(text, tag) ==
    [kind |-> "string", text |-> text, bytes |-> <<>>, tag |-> tag]

\* UntaggedValue::binary(bytes).into_value(tag).
BinaryValue(bytes, tag) ==
    [kind |-> "binary", text |-> <<>>, bytes |-> bytes, tag |-> tag]

(* ---------------------------- host callback ---------------------------- *)

\* What readfile returns is a string of JSON.  It is modelled by what it
\* holds: shape "Ok" is {"Ok":{"data":[...]}}, shape "Err" is {"Err":"..."},
\* shape "Other" is JSON of another shape, shape "NotJson" is no JSON.
HostOk(data) == [shape |-> "Ok", data |-> data, msg |-> <<>>]

HostErr(msg) == [shape |-> "Err", data |-> <<>>, msg |-> msg]

HostOther == [shape |-> "Other", data |-> <<>>, msg |-> <<>>]

HostNotJson == [shape |-> "NotJson", data |-> <<>>, msg |-> <<>>]

\* serde_json::from_str::<Result<JSBuffer, String>>: the data of an "Ok" is a
\* Vec<u8>, so a number outside 0..255 fails like any other wrong shape.
FromStr(contents) ==
    CASE contents.shape = "Ok"
           /\ \A k \in 1..Len(contents.data) : contents.data[k] \in 0..255 ->
             Ok(Ok([data |-> contents.data]))
      [] contents.shape = "Err" -> Ok(Err(contents.msg))
      [] contents.shape = "NotJson" -> Err(<<"s","y","n","t","a","x">>)
      [] OTHER -> Err(<<"d","a","t","a">>)

(* -------------------------------- fetch -------------------------------- *)

\* The binary fallback as it would be if it were never taken.
FallbackNever(encoding_choice, replacements) == FALSE

\* The binary fallback as it would be if an explicit encoding took it too.
FallbackAlways(encoding_choice, replacements) == replacements

\* Whether fetch falls back to a binary value: only without an encoding
\* argument, when the decoder had to use replacement characters.
FallbackToBinary(encoding_choice, replacements) ==
    encoding_choice = None /\ replacements

\* The decoding of the explicit-encoding branch as it would be with
\* byte-order-mark sniffing.
DecodeChosenSniffing(encoding, res) == Decode(encoding, res)

\* The decoding of the explicit-encoding branch.
DecodeChosen(encoding, res) == DecodeWithBomRemoval(encoding, res)

\* The decoding of the branch without an encoding argument.
DecodeDefault(encoding, res) == Decode(encoding, res)

\* fetch(path, span, raw, encoding_choice), given what readfile returned for
\* the path: Err(ShellError) or Ok(<<ext, value>>).
Fetch(path, span, raw, encoding_choice, contents) ==
    LET ext      == FormatTag(path, raw)
        file_tag == FileTag(path, span)
        buffer   == FromStr(contents)
    IN
    IF ~buffer.ok THEN Err(FromSerdeError(buffer.err))
    ELSE IF ~buffer.val.ok
    THEN Err(LabeledError("Could not open file", buffer.val.err,
                          "could not open", span))
    ELSE
    LET res      == buffer.val.val.data
        encoding == IF encoding_choice = None THEN Ok("UTF-8")
                    ELSE GetEncoding(encoding_choice)
    IN
    IF ~encoding.ok THEN Err(encoding.err)
    ELSE
    LET decoded == IF IsSome(encoding_choice)
                   THEN DecodeChosen(encoding.val, res)
                   ELSE DecodeDefault(encoding.val, res)
    IN
    IF FallbackToBinary(encoding_choice, decoded.err)
    THEN Ok(<<ext, BinaryValue(res, file_tag)>>)
    ELSE Ok(<<ext, StringValue(decoded.text, file_tag)>>)

(* -------------------------------- open --------------------------------- *)

\* format!("from {}", ext).
FromCommand(ext) == S_from \o ext

\* OutputStream::one(ReturnSuccess::value(v)).
OneValue(v) == [what |-> "Value", value |-> v, ext |-> None]

\* OutputStream::one(ReturnSuccess::action(CommandAction::AutoConvert(v, ext))).
OneAutoConvert(v, ext) == [what |-> "AutoConvert", value |-> v, ext |-> Some(ext)]

\* open as it would be without the conversion lookup.
OpenNoConvert(args, registry, contents) ==
    LET fetched == Fetch(args.path.item, args.path.span, args.raw.item,
                         args.encoding, contents)
    IN  IF ~fetched.ok THEN Err(fetched.err)
        ELSE Ok(OneValue(fetched.val[2]))

\* open, from the processed arguments on: fetch, then the lookup of the
\* conversion command in the registry.
Open(args, registry, contents) ==
    LET fetched == Fetch(args.path.item, args.path.span, args.raw.item,
                         args.encoding, contents)
    IN  IF ~fetched.ok THEN Err(fetched.err)
        ELSE LET ext             == fetched.val[1]
                 tagged_contents == fetched.val[2]
             IN  IF IsSome(ext) /\ FromCommand(Unwrap(ext)) \in registry
                 THEN Ok(OneAutoConvert(tagged_contents, Unwrap(ext)))
                 ELSE Ok(OneValue(tagged_contents))

\* Open::signature as it would be with the path optional.
OpenSignatureOptionalPath ==
    [name |-> S_open, required |-> {}, optional |-> {"path"},
     switches |-> {"raw"}, named |-> {"encoding"}]

\* Open::signature: a required path, the switch raw, the named encoding.
OpenSignature ==
    [name |-> S_open, required |-> {"path"}, optional |-> {},
     switches |-> {"raw"}, named |-> {"encoding"}]

(* ------------------------------ evaluator ------------------------------ *)

\* A line as the parser hands it on: the command's name and the arguments
\* given, each with the span of its token.
MkLine(name, path, raw, encoding) ==
    [name     |-> Tagged(name, "name"),
     path     |-> IF path = None THEN None
                  ELSE Some(Tagged(Unwrap(path), "path")),
     raw      |-> Tagged(raw, "raw"),
     encoding |-> IF encoding = None THEN None
                  ELSE Some(Tagged(Unwrap(encoding), "encoding"))]

\* The commands create_default_context registers, as far as open can ask
\* for them: the converters "from csv" and "from json".
DefaultCommands == {FromCommand(S_csv), FromCommand(S_json)}

S_ls == <<"l","s">>

S_sys == <<"s","y","s">>

S_random_dice == <<"r","a","n","d","o","m"," ","d","i","c","e">>

\* The four commands run_nu adds to the context.
BuiltIns == {S_random_dice, S_ls, S_open, S_sys}

\* Resolving and binding a stage: an unknown name is CommandNotFound, a
\* required positional that is not given is MissingArgument, both before the
\* command runs and both at the stage's span.
Classify(l, registry, signature) ==
    IF l.name.item \notin registry
    THEN Err([kind |-> "CommandNotFound", text |-> "command not found",
              arg |-> l.name.item, label |-> "", span |-> Some(l.name.span)])
    ELSE IF "path" \in signature.required /\ l.path = None
    THEN Err([kind |-> "MissingArgument", text |-> "missing argument",
              arg |-> <<"p","a","t","h">>, label |-> "",
              span |-> Some(l.name.span)])
    ELSE Ok(l)

\* CommandAction::AutoConvert as the evaluator carries it out: the command
\* "from <ext>" applied to the contents.
AutoConvert(value, ext) ==
    [kind |-> "converted", by |-> FromCommand(ext), of |-> value]

(* ------------------------------- run_nu -------------------------------- *)

Inv == 1..NumInv

\* The response as it would be with every outcome encoded as Ok.
SerializeAlwaysOk(disc, payload, serOk) ==
    IF serOk THEN [json |-> TRUE, disc |-> "Ok", payload |-> payload]
    ELSE [json |-> FALSE, disc |-> "",
          payload |-> [msg |-> "Error converting to json"]]

\* match serde_json::to_string(&OkError::<disc>(payload)): the JSON, or the
\* plain text "Error converting to json: ..." when to_string fails.
Serialize(disc, payload, serOk) ==
    IF serOk THEN [json |-> TRUE, disc |-> disc, payload |-> payload]
    ELSE [json |-> FALSE, disc |-> "",
          payload |-> [msg |-> "Error converting to json"]]

\* The context slot as it would be with one context shared by every
\* invocation.
CtxOfShared(i) == 1

\* The context an invocation uses: the local `ctx` it has built itself.
CtxOf(i) == i

\* The registry of the invocation's context.
Registry(i) == Unwrap(ctxs[CtxOf(i)]).registry

\* The context of invocation i was built.
CtxBuilt(i) == IsSome(ctxs[CtxOf(i)])

\* run_nu(line), to the first await: the context is built and the four
\* commands added, or the failure to build it is the response.
RunNu(i, l, ctxOk, serOk) ==
    /\ pc[i] = "idle"
    /\ line' = [line EXCEPT ![i] = Some(l)]
    /\ IF ctxOk
       THEN /\ ctxs' = [ctxs EXCEPT ![CtxOf(i)] =
                           Some([owner |-> i,
                                 registry |-> DefaultCommands \cup BuiltIns])]
            /\ pc' = [pc EXCEPT ![i] = "eval"]
            /\ resp' = resp
       ELSE /\ ctxs' = ctxs
            /\ pc' = [pc EXCEPT ![i] = "done"]
            /\ resp' = [resp EXCEPT ![i] =
                           Append(@, Serialize("InternalError",
                                               [msg |-> "context"], serOk))]
    /\ UNCHANGED <<files, stage, reads, entered, outcome>>

\* parse_and_eval, to the await in open: the stage is resolved and bound,
\* and Open::run is entered with the arguments given.
ParseAndEval(i) ==
    /\ pc[i] = "eval"
    /\ LET c == Classify(Unwrap(line[i]), Registry(i), OpenSignature) IN
       IF ~c.ok
       THEN /\ outcome' = [outcome EXCEPT ![i] = Some(Err(c.err))]
            /\ pc' = [pc EXCEPT ![i] = "evaluated"]
            /\ entered' = entered
       ELSE /\ entered' = [entered EXCEPT ![i] = TRUE]
            /\ pc' = [pc EXCEPT ![i] = "process"]
            /\ outcome' = outcome
    /\ UNCHANGED <<files, line, ctxs, stage, reads, resp>>

\* open, from the completion of args.process to its return: arguments that
\* do not make an OpenArgs are an error; otherwise fetch calls readfile.
OpenRun(i) ==
    /\ pc[i] = "process"
    /\ LET l == Unwrap(line[i]) IN
       IF l.path = None
       THEN /\ stage' = [stage EXCEPT ![i] =
                            Some(Err([kind |-> "ArgumentError",
                                      text |-> "missing field",
                                      arg |-> <<"p","a","t","h">>,
                                      label |-> "", span |-> None]))]
            /\ reads' = reads
       ELSE LET args == [path     |-> Unwrap(l.path),
                         raw      |-> l.raw,
                         encoding |-> l.encoding]
            IN  /\ reads' = [reads EXCEPT ![i] = Append(@, args.path.item)]
                /\ stage' = [stage EXCEPT ![i] =
                                Some(Open(args, Registry(i),
                                          files[args.path.item]))]
    /\ pc' = [pc EXCEPT ![i] = "opened"]
    /\ UNCHANGED <<files, line, ctxs, entered, outcome, resp>>

\* parse_and_eval, from open's return on: the stage's failure, its value, or
\* the conversion it asked for.
EvalStage(i) ==
    /\ pc[i] = "opened"
    /\ LET st == Unwrap(stage[i]) IN
       outcome' = [outcome EXCEPT ![i] =
           Some(IF ~st.ok THEN Err(st.err)
                ELSE IF st.val.what = "AutoConvert"
                THEN Ok(AutoConvert(st.val.value, Unwrap(st.val.ext)))
                ELSE Ok(st.val.value))]
    /\ pc' = [pc EXCEPT ![i] = "evaluated"]
    /\ UNCHANGED <<files, line, ctxs, stage, reads, entered, resp>>

\* run_nu, from the await on: the outcome is encoded and returned.
Respond(i, serOk) ==
    /\ pc[i] = "evaluated"
    /\ LET o == Unwrap(outcome[i]) IN
       resp' = [resp EXCEPT ![i] =
           Append(@, IF o.ok THEN Serialize("Ok", o.val, serOk)
                     ELSE Serialize("Error", o.err, serOk))]
    /\ pc' = [pc EXCEPT ![i] = "done"]
    /\ UNCHANGED <<files, line, ctxs, stage, reads, entered, outcome>>

(* ------------------------------- inputs -------------------------------- *)

P_a_csv == <<"a",".","c","s","v">>

P_a == <<"a">>

P_hidden == <<".","c","s","v">>

P_dir == <<"d",".","c","s","v","/","a">>

P_upper == <<"a",".","C","S","V">>

Paths == {P_a_csv, P_a, P_hidden, P_dir, P_upper}

L_utf8 == <<"u","t","f","-","8">>

L_UTF8 == <<" ","U","T","F","8">>

L_utf16le == <<"u","t","f","-","1","6","l","e">>

L_latin1 == <<"l","a","t","i","n","1">>

L_bogus == <<"b","o","g","u","s">>

Labels == {L_utf8, L_UTF8, L_utf16le, L_latin1, L_bogus}

S_nope == <<"n","o","p","e">>

\* The lines of the interleaving specification.
Lines ==
    { MkLine(S_open, Some(P_a_csv), FALSE, None),
      MkLine(S_open, Some(P_a_csv), TRUE, None),
      MkLine(S_open, Some(P_a), FALSE, Some(L_utf8)),
      MkLine(S_open, Some(P_a_csv), FALSE, Some(L_bogus)),
      MkLine(S_open, None, FALSE, None),
      MkLine(S_nope, Some(P_a), FALSE, None) }

\* The lines of the single-invocation specification: open with every path,
\* with and without raw, with every label and none.
FetchLines ==
    { MkLine(S_open, Some(p), raw, e) :
        p \in Paths, raw \in BOOLEAN, e \in {None} \cup {Some(x) : x \in Labels} }
    \cup { MkLine(S_open, None, FALSE, None),
           MkLine(S_nope, Some(P_a), FALSE, None) }

HostMsg == <<"E","N","O","E","N","T">>

\* The bytes a file's body is made of: "A", the two bytes of U+00E9 in
\* UTF-8, a byte no UTF-8 text holds, and the high byte of a lead surrogate.
BodyBytes == {65, 195, 169, 255, 216}

Bodies == UNION {[1..n -> BodyBytes] : n \in 0..MaxBody}

Boms == {<<>>, Bom("UTF-8"), Bom("UTF-16LE"), Bom("UTF-16BE")}

\* What readfile may return for a file.
RichContents ==
    {HostOk(b \o body) : b \in Boms, body \in Bodies}
    \cup {HostOk(<<256>>), HostErr(HostMsg), HostOther, HostNotJson}

SmallContents ==
    {HostOk(<<65>>), HostOk(<<255>>), HostErr(HostMsg), HostNotJson}

(* ---------------------------- specifications --------------------------- *)

InitRest ==
    /\ pc = [i \in Inv |-> "idle"]
    /\ line = [i \in Inv |-> None]
    /\ ctxs = [i \in Inv |-> None]
    /\ stage = [i \in Inv |-> None]
    /\ reads = [i \in Inv |-> <<>>]
    /\ entered = [i \in Inv |-> FALSE]
    /\ outcome = [i \in Inv |-> None]
    /\ resp = [i \in Inv |-> <<>>]

\* Any number of invocations up to NumInv, interleaved at their awaits,
\* over a host whose files all hold the same.
Init ==
    /\ files \in {[p \in Paths |-> c] : c \in SmallContents}
    /\ InitRest

Next ==
    \E i \in Inv :
        \/ \E l \in Lines, ctxOk \in BOOLEAN, serOk \in BOOLEAN :
               RunNu(i, l, ctxOk, serOk)
        \/ ParseAndEval(i)
        \/ OpenRun(i)
        \/ EvalStage(i)
        \/ \E serOk \in BOOLEAN : Respond(i, serOk)

Spec == Init /\ [][Next]_vars

\* One invocation, over every file content and every argument of open.
FetchInit ==
    /\ files \in {[p \in Paths |-> c] : c \in RichContents}
    /\ InitRest

FetchNext ==
    \/ \E l \in FetchLines, ctxOk \in BOOLEAN, serOk \in BOOLEAN :
           RunNu(1, l, ctxOk, serOk)
    \/ ParseAndEval(1)
    \/ OpenRun(1)
    \/ EvalStage(1)
    \/ \E serOk \in BOOLEAN : Respond(1, serOk)

FetchSpec == FetchInit /\ [][FetchNext]_vars

(* ------------------------- what the claims speak of -------------------- *)

\* The line of invocation i, once run_nu was called with it.
LineOf(i) == Unwrap(line[i])

\* Invocation i has run open through fetch: readfile was called.
Fetched(i) == IsSome(stage[i]) /\ IsSome(LineOf(i).path)

PathOf(i) == Unwrap(LineOf(i).path).item

ContentsOf(i) == files[PathOf(i)]

\* The host's string holds a byte array: the read succeeded.
ReadOk(i) ==
    /\ ContentsOf(i).shape = "Ok"
    /\ \A k \in 1..Len(ContentsOf(i).data) : ContentsOf(i).data[k] < 256

DataOf(i) == ContentsOf(i).data

StageOf(i) == Unwrap(stage[i])

\* The encoding each label of the inputs names in the Encoding Standard.
ExpectedEncoding(label) ==
    CASE label = L_utf8 -> Some("UTF-8")
      [] label = L_UTF8 -> Some("UTF-8")
      [] label = L_utf16le -> Some("UTF-16LE")
      [] label = L_latin1 -> Some("windows-1252")
      [] OTHER -> None

\* The encoding argument of invocation i names a decoder.
ChosenOk(i) ==
    /\ IsSome(LineOf(i).encoding)
    /\ IsSome(ExpectedEncoding(Unwrap(LineOf(i).encoding).item))

ChosenOf(i) == Unwrap(ExpectedEncoding(Unwrap(LineOf(i).encoding).item))

\* Well-formed UTF-8 as the Unicode Standard tabulates it (table 3-7): the
\* byte sequences that encode one scalar value.
WellFormedChunk(c) ==
    LET cont(k) == c[k] \in 128..191 IN
    \/ Len(c) = 1 /\ c[1] \in 0..127
    \/ Len(c) = 2 /\ c[1] \in 194..223 /\ cont(2)
    \/ /\ Len(c) = 3
       /\ \/ c[1] = 224 /\ c[2] \in 160..191
          \/ c[1] \in 225..236 /\ cont(2)
          \/ c[1] = 237 /\ c[2] \in 128..159
          \/ c[1] \in 238..239 /\ cont(2)
       /\ cont(3)
    \/ /\ Len(c) = 4
       /\ \/ c[1] = 240 /\ c[2] \in 144..191
          \/ c[1] \in 241..243 /\ cont(2)
          \/ c[1] = 244 /\ c[2] \in 128..143
       /\ cont(3) /\ cont(4)

ChunkLens(bs) ==
    {n \in 1..4 : n <= Len(bs) /\ WellFormedChunk(SubSeq(bs, 1, n))}

RECURSIVE ValidUtf8(_)
ValidUtf8(bs) ==
    \/ bs = <<>>
    \/ \E n \in ChunkLens(bs) : ValidUtf8(SubSeq(bs, n + 1, Len(bs)))

\* The scalar value a well-formed chunk encodes.
ScalarOf(c) ==
    CASE Len(c) = 1 -> c[1]
      [] Len(c) = 2 -> ((c[1] - 192) * 64) + (c[2] - 128)
      [] Len(c) = 3 -> ((c[1] - 224) * 4096) + ((c[2] - 128) * 64) + (c[3] - 128)
      [] OTHER -> ((c[1] - 240) * 262144) + ((c[2] - 128) * 4096)
                  + ((c[3] - 128) * 64) + (c[4] - 128)

\* The text valid UTF-8 encodes.
RECURSIVE ScalarsOf(_)
ScalarsOf(bs) ==
    IF bs = <<>> THEN <<>>
    ELSE LET n == CHOOSE n \in ChunkLens(bs) : TRUE
         IN  <<ScalarOf(SubSeq(bs, 1, n))>> \o ScalarsOf(SubSeq(bs, n + 1, Len(bs)))

\* The 16-bit units of bytes of even length.
Units(bs, be) ==
    [k \in 1..(Len(bs) \div 2) |->
        IF be THEN (bs[2 * k - 1] * 256) + bs[2 * k]
        ELSE (bs[2 * k] * 256) + bs[2 * k - 1]]

\* Well-formed UTF-16: whole units, every surrogate in a pair.
ValidUtf16(bs, be) ==
    /\ Len(bs) % 2 = 0
    /\ LET u == Units(bs, be) IN
       \A k \in 1..Len(u) :
          /\ u[k] \in 55296..56319 => k < Len(u) /\ u[k + 1] \in 56320..57343
          /\ u[k] \in 56320..57343 => k > 1 /\ u[k - 1] \in 55296..56319

HasSurrogate(bs, be) == \E k \in 1..(Len(bs) \div 2) : Units(bs, be)[k] \in 55296..57343

\* bs without the leading mark, when it starts with it.
StripMark(bs, mark) ==
    IF mark # <<>> /\ Len(bs) >= Len(mark) /\ SubSeq(bs, 1, Len(mark)) = mark
    THEN SubSeq(bs, Len(mark) + 1, Len(bs))
    ELSE bs

Utf16LeMark == <<255, 254>>

Utf16BeMark == <<254, 255>>

Utf8Mark == <<239, 187, 191>>

HasMark(bs, mark) == StripMark(bs, mark) # bs

\* Invocation i gave no encoding and fetch produced a value.
DefaultValue(i) ==
    Fetched(i) /\ LineOf(i).encoding = None /\ ReadOk(i)

ValueOf(i) == StageOf(i).val.value

IsStringOf(v, text) == v.kind = "string" /\ v.text = text

IsBinaryOf(v, bytes) == v.kind = "binary" /\ v.bytes = bytes

\* The extension each path of the inputs has.
ExpectedExt(p) ==
    CASE p = P_a_csv -> Some(S_csv)
      [] p = P_upper -> Some(<<"C","S","V">>)
      [] OTHER -> None

\* The byte-order mark of each encoding.
MarkOf(encoding) ==
    CASE encoding = "UTF-8" -> Utf8Mark
      [] encoding = "UTF-16LE" -> Utf16LeMark
      [] encoding = "UTF-16BE" -> Utf16BeMark
      [] OTHER -> <<>>

\* The read succeeds and the encoding argument, if given, names a decoder.
FetchSucceeds(i) ==
    Fetched(i) /\ ReadOk(i) /\ (LineOf(i).encoding = None \/ ChosenOk(i))

(* -------------------------------- claims ------------------------------- *)

\* C1: open without raw, on a path with extension X for which "from X" is
\* registered, once the read and the decoding succeeded, emits one
\* auto-conversion request carrying the file's contents and X, never the
\* plain value; the line's result is "from X" applied to the contents.
C1_AutoConvert ==
    \A i \in Inv :
        ( /\ FetchSucceeds(i)
          /\ ~LineOf(i).raw.item
          /\ IsSome(ExpectedExt(PathOf(i)))
          /\ FromCommand(Unwrap(ExpectedExt(PathOf(i)))) \in Registry(i) )
        => /\ StageOf(i).ok
           /\ StageOf(i).val.what = "AutoConvert"
           /\ StageOf(i).val.ext = ExpectedExt(PathOf(i))
           /\ ValueOf(i).kind \in {"string", "binary"}
           /\ ValueOf(i).tag.anchor = Some(PathOf(i))
           /\ ValueOf(i).kind = "binary" => ValueOf(i).bytes = DataOf(i)
           /\ IsSome(outcome[i]) =>
                 Unwrap(outcome[i]) =
                     Ok([kind |-> "converted",
                         by   |-> S_from \o Unwrap(ExpectedExt(PathOf(i))),
                         of   |-> ValueOf(i)])

C1_Witness ==
    \E i \in Inv :
        /\ FetchSucceeds(i)
        /\ ~LineOf(i).raw.item
        /\ PathOf(i) = P_a_csv
        /\ StageOf(i).val.what = "AutoConvert"
        /\ IsSome(outcome[i])

\* C2: open with raw derives no format tag: whatever the extension and the
\* registry, its one output is the decoded string or binary value itself,
\* and an auto-conversion request is never emitted.
C2_RawNeverConverts ==
    \A i \in Inv :
        (IsSome(line[i]) /\ LineOf(i).raw.item /\ Fetched(i))
        => /\ FetchSucceeds(i) => StageOf(i).ok
           /\ StageOf(i).ok =>
                 /\ StageOf(i).val.what = "Value"
                 /\ StageOf(i).val.ext = None
                 /\ ValueOf(i).kind \in {"string", "binary"}
                 /\ IsSome(outcome[i]) => Unwrap(outcome[i]) = Ok(ValueOf(i))

C2_Witness ==
    \E i \in Inv :
        /\ IsSome(line[i]) /\ LineOf(i).raw.item /\ Fetched(i)
        /\ PathOf(i) = P_a_csv
        /\ FromCommand(S_csv) \in Registry(i)
        /\ StageOf(i).ok
        /\ StageOf(i).val.what = "Value"
        /\ IsSome(outcome[i])

\* C3 as stated: without an encoding argument, bytes that are not valid
\* UTF-8 give a binary value holding the bytes unchanged, and bytes that are
\* valid UTF-8 give a string value holding the decoded text.
C3_AsStated ==
    \A i \in Inv :
        DefaultValue(i)
        => /\ StageOf(i).ok
           /\ IF ValidUtf8(DataOf(i))
              THEN \/ IsStringOf(ValueOf(i), ScalarsOf(DataOf(i)))
                   \/ IsStringOf(ValueOf(i),
                                 ScalarsOf(StripMark(DataOf(i), Utf8Mark)))
              ELSE IsBinaryOf(ValueOf(i), DataOf(i))

\* C3, amended: without an encoding argument the bytes are decoded with
\* byte-order-mark sniffing: as UTF-16 after a UTF-16 mark, as UTF-8 (after
\* a UTF-8 mark, if there is one) otherwise.  When that decoding is of
\* well-formed text the value is a string holding it; when it would need
\* replacement characters the value is binary holding the bytes unchanged.
\* A string with substituted replacement characters is never produced.
C3_SniffedFallback ==
    \A i \in Inv :
        DefaultValue(i)
        => /\ StageOf(i).ok
           /\ LET d == DataOf(i)
                  v == ValueOf(i)
                  utf16(be, rest) ==
                      IF ValidUtf16(rest, be)
                      THEN /\ v.kind = "string"
                           /\ ~HasSurrogate(rest, be) => v.text = Units(rest, be)
                           /\ 65533 \in {v.text[k] : k \in 1..Len(v.text)}
                                 => 65533 \in {Units(rest, be)[k] :
                                                 k \in 1..(Len(rest) \div 2)}
                      ELSE IsBinaryOf(v, d)
              IN  CASE HasMark(d, Utf16LeMark) ->
                         utf16(FALSE, StripMark(d, Utf16LeMark))
                    [] HasMark(d, Utf16BeMark) ->
                         utf16(TRUE, StripMark(d, Utf16BeMark))
                    [] OTHER ->
                         IF ValidUtf8(StripMark(d, Utf8Mark))
                         THEN IsStringOf(v, ScalarsOf(StripMark(d, Utf8Mark)))
                         ELSE IsBinaryOf(v, d)

C3_Witness ==
    \E i \in Inv :
        /\ DefaultValue(i)
        /\ HasMark(DataOf(i), Utf16LeMark)
        /\ ~ValidUtf8(DataOf(i))
        /\ ValueOf(i).kind = "string"
        /\ Len(ValueOf(i).text) > 0

\* C4: with an encoding argument that names a decoder, the value fetch
\* produces is a string for every byte sequence the host returns, also when
\* the decoder substitutes replacement characters; never binary.
C4_ExplicitNeverBinary ==
    \A i \in Inv :
        (Fetched(i) /\ ReadOk(i) /\ ChosenOk(i))
        => StageOf(i).ok /\ ValueOf(i).kind = "string"

C4_Witness ==
    \E i \in Inv :
        /\ Fetched(i) /\ ReadOk(i) /\ ChosenOk(i)
        /\ ChosenOf(i) = "UTF-8"
        /\ ~ValidUtf8(StripMark(DataOf(i), Utf8Mark))
        /\ ValueOf(i).kind = "string"
        /\ 65533 \in {ValueOf(i).text[k] : k \in 1..Len(ValueOf(i).text)}

\* C5: when the string readfile returned cannot be deserialized, fetch fails
\* with the "Could not open file" / "could not open" error labelled at the
\* path's span, the error of a read failure the host reports.
C5_DeserializeCouldNotOpen ==
    \A i \in Inv :
        (Fetched(i) /\ ~ReadOk(i) /\ ContentsOf(i).shape # "Err")
        => /\ ~StageOf(i).ok
           /\ StageOf(i).err.kind = "labeled"
           /\ StageOf(i).err.text = "Could not open file"
           /\ StageOf(i).err.label = "could not open"
           /\ StageOf(i).err.span = Some(Unwrap(LineOf(i).path).span)

\* C6: get_encoding gives UTF-8 without a label, the decoder a known label
\* names, and for an unknown label the "invalid encoding" error that names
\* the label at the label's own span; it does not call the host, so fetch
\* has called readfile exactly once.
C6_GetEncoding ==
    /\ GetEncoding(None) = Ok("UTF-8")
    /\ \A i \in Inv :
          (Fetched(i) /\ ReadOk(i) /\ IsSome(LineOf(i).encoding))
          => LET label == Unwrap(LineOf(i).encoding) IN
             /\ reads[i] = <<PathOf(i)>>
             /\ IF ChosenOk(i)
                THEN /\ GetEncoding(LineOf(i).encoding) = Ok(ChosenOf(i))
                     /\ StageOf(i).ok
                     /\ ValueOf(i).text =
                           DecodeWithoutBomHandling(
                               ChosenOf(i),
                               StripMark(DataOf(i), MarkOf(ChosenOf(i)))).text
                ELSE /\ ~StageOf(i).ok
                     /\ StageOf(i).err.kind = "labeled"
                     /\ StageOf(i).err.text = "is not a valid encoding"
                     /\ StageOf(i).err.arg = label.item
                     /\ StageOf(i).err.label = "invalid encoding"
                     /\ StageOf(i).err.span = Some(label.span)

C6_Witness ==
    \E i \in Inv :
        /\ Fetched(i) /\ ReadOk(i) /\ IsSome(LineOf(i).encoding)
        /\ Unwrap(LineOf(i).encoding).item = L_bogus
        /\ ~StageOf(i).ok
        /\ StageOf(i).err.label = "invalid encoding"

CanStep(i) ==
    /\ pc[i] \in {"eval", "process", "opened", "evaluated"}
    /\ IsSome(line[i])
    /\ pc[i] \in {"eval", "process"} => CtxBuilt(i)
    /\ pc[i] = "opened" => IsSome(stage[i])
    /\ pc[i] = "evaluated" => IsSome(outcome[i])

\* C8: every invocation of run_nu returns exactly one response, on every
\* path: InternalError when the context cannot be built, and then the line
\* is neither parsed nor evaluated; Ok with the value when evaluation
\* succeeds; Error with the shell error when it fails; and the plain text
\* "Error converting to json" when the encoding of any of these fails.
C8_OneResponse ==
    \A i \in Inv :
        /\ Len(resp[i]) = IF pc[i] = "done" THEN 1 ELSE 0
        /\ pc[i] \notin {"idle", "done"} => CanStep(i)
        /\ pc[i] = "done" =>
              LET r == resp[i][1] IN
              /\ ~r.json => r.payload = [msg |-> "Error converting to json"]
              /\ IF CtxBuilt(i)
                 THEN /\ IsSome(outcome[i])
                      /\ r.json =>
                            IF Unwrap(outcome[i]).ok
                            THEN /\ r.disc = "Ok"
                                 /\ r.payload = Unwrap(outcome[i]).val
                            ELSE /\ r.disc = "Error"
                                 /\ r.payload = Unwrap(outcome[i]).err
                 ELSE /\ outcome[i] = None
                      /\ stage[i] = None
                      /\ ~entered[i]
                      /\ reads[i] = <<>>
                      /\ r.json => r.disc = "InternalError"

C8_Witness ==
    \E i \in Inv, j \in Inv :
        /\ pc[i] = "done" /\ pc[j] = "done"
        /\ resp[i][1].json /\ resp[i][1].disc = "InternalError"
        /\ resp[j][1].json /\ resp[j][1].disc = "Error"

\* What a line evaluates to when it is run alone over the host's files.
AloneOutcome(l, fs) ==
    LET registry == DefaultCommands \cup BuiltIns
        c        == Classify(l, registry, OpenSignature)
    IN  IF ~c.ok THEN Err(c.err)
        ELSE LET args == [path |-> Unwrap(l.path), raw |-> l.raw,
                          encoding |-> l.encoding]
                 st   == Open(args, registry, fs[args.path.item])
             IN  IF ~st.ok THEN Err(st.err)
                 ELSE IF st.val.what = "AutoConvert"
                 THEN Ok(AutoConvert(st.val.value, Unwrap(st.val.ext)))
                 ELSE Ok(st.val.value)

\* C9: invocations of run_nu that interleave each build and use a context
\* and registry of their own, holding the default commands and the four
\* built-ins from before evaluation starts to its end, so that none sees or
\* changes another's, and each result is what the line returns run alone.
C9_OwnContext ==
    \A i \in Inv :
        /\ pc[i] \in {"eval", "process", "opened", "evaluated"} =>
              ctxs[CtxOf(i)] =
                  Some([owner |-> i, registry |-> DefaultCommands \cup BuiltIns])
        /\ IsSome(outcome[i]) =>
              Unwrap(outcome[i]) = AloneOutcome(LineOf(i), files)
        /\ (pc[i] = "done" /\ resp[i][1].json /\ IsSome(outcome[i])) =>
              resp[i][1].payload =
                  IF AloneOutcome(LineOf(i), files).ok
                  THEN AloneOutcome(LineOf(i), files).val
                  ELSE AloneOutcome(LineOf(i), files).err

C9_Witness ==
    \E i \in Inv, j \in Inv :
        /\ i # j
        /\ pc[i] = "opened" /\ pc[j] = "process"
        /\ LineOf(i) # LineOf(j)
        /\ StageOf(i).ok

\* C10 as stated: with an encoding argument the bytes are decoded by the
\* chosen decoder with a leading byte-order mark neither stripped nor used
\* to switch decoder; without one, as UTF-8 with byte-order-mark sniffing.
C10_AsStated ==
    \A i \in Inv :
        (Fetched(i) /\ ReadOk(i))
        => /\ ChosenOk(i) =>
                 /\ StageOf(i).ok
                 /\ IsStringOf(ValueOf(i),
                               DecodeWithoutBomHandling(ChosenOf(i),
                                                        DataOf(i)).text)
           /\ LineOf(i).encoding = None =>
                 /\ StageOf(i).ok
                 /\ LET r == Decode("UTF-8", DataOf(i)) IN
                    IF r.err THEN IsBinaryOf(ValueOf(i), DataOf(i))
                    ELSE IsStringOf(ValueOf(i), r.text)

\* C10, amended: with an encoding argument the bytes are decoded by the
\* chosen decoder without sniffing (a leading mark never switches decoder),
\* but a leading byte-order mark of the chosen encoding itself is removed
\* from the output; without one, as UTF-8 with byte-order-mark sniffing.
C10_OwnMarkRemoved ==
    \A i \in Inv :
        (Fetched(i) /\ ReadOk(i))
        => /\ ChosenOk(i) =>
                 /\ StageOf(i).ok
                 /\ IsStringOf(ValueOf(i),
                               DecodeWithoutBomHandling(
                                   ChosenOf(i),
                                   StripMark(DataOf(i), MarkOf(ChosenOf(i)))).text)
           /\ LineOf(i).encoding = None =>
                 /\ StageOf(i).ok
                 /\ LET r == Decode("UTF-8", DataOf(i)) IN
                    IF r.err THEN IsBinaryOf(ValueOf(i), DataOf(i))
                    ELSE IsStringOf(ValueOf(i), r.text)

C10_Witness ==
    \E i \in Inv :
        /\ Fetched(i) /\ ReadOk(i) /\ ChosenOk(i)
        /\ ChosenOf(i) = "UTF-8"
        /\ HasMark(DataOf(i), Utf8Mark)
        /\ Len(DataOf(i)) > Len(Utf8Mark)
        /\ ValueOf(i).kind = "string"
        /\ 65279 \notin {ValueOf(i).text[k] : k \in 1..Len(ValueOf(i).text)}

====
